---- MODULE Spec2Model ----
(***************************************************************************)
(* Model of lib/emit.ts of grainjs: the LLink doubly-linked list, the      *)
(* Emitter (list sentinel and owner) and the Listener nodes.               *)
(*                                                                         *)
(* One Emitter (node E) and the listeners it has handed out (nodes 1..n,   *)
(* numbered in the order addListener created them).  Listener callbacks    *)
(* are arbitrary user code: while a callback runs (a frame is on `stack`)  *)
(* the environment may call any public operation of the emitter or of a    *)
(* listener, then return or throw.  The variable `last` is a history       *)
(* record of the operation that has just finished; the frame fields snap,  *)
(* called, disposedBefore, disposedSelf and added are history fields of an *)
(* emit pass.  Neither is read by the program's steps.                     *)
(*                                                                         *)
(* An operation is one step: the change callback it triggers is recorded   *)
(* as a call (function and argument) and is taken to return without        *)
(* calling back into the emitter.  An error that leaves an operation       *)
(* called from a running callback is caught by one of the callbacks on the *)
(* stack, or by none.  addListener on a disposed emitter fails in          *)
(* _insertBefore before the new node is linked anywhere; the node is then  *)
(* garbage and is not kept in the model.                                   *)
(***************************************************************************)
EXTENDS Integers, Sequences, FiniteSets, TLC

\* ---------------------------------------------------------------- bounds
MaxListeners == 3       \* listeners addListener may create in one behaviour
MaxDepth == 2           \* emit() calls that may be in progress at once

\* ------------------------------------------------------------- constants
NULL == -1              \* the null link
E == 0                  \* the Emitter: the sentinel node of its own list

ListenerCBs == {"cbA", "cbB"}        \* listener callbacks (user functions)
ChangeCBs == {"f", "g"}              \* change callbacks (user functions)
_noop == "_noop"                     \* function _noop() {}
Args == {"x", "y"}                   \* argument lists passed to emit()

VARIABLES
  next,        \* LLink._next of every node that exists
  prev,        \* LLink._prev of every node that exists
  callback,    \* Listener.callback of every listener
  changeCB,    \* Emitter._changeCB
  stack,       \* the emit() calls in progress, outermost first
  last         \* history: the operation that has just finished

vars == <<next, prev, callback, changeCB, stack, last>>

Listeners == DOMAIN callback
Nodes == DOMAIN next

\* ------------------------------------------------------------ LLink code
\* The pair of link maps, with the error (if any) a step raised.
Links(nx, pv) == [next |-> nx, prev |-> pv, err |-> "ok"]

\* constructor(): this._next = this; this._prev = this;
LLinkNew(L, node) ==
  [L EXCEPT !.next = (node :> node) @@ L.next,
            !.prev = (node :> node) @@ L.prev]

\* Variant: the test compares with undefined, which a link never is.
isDisposed_undefined(nx, node) == FALSE

\* isDisposed(): return !this._next;
isDisposed(nx, node) == nx[node] = NULL

\* Variant: the node is linked after `next` (at the head) instead of before
\* it (at the tail).
_insertAfter(L, nextNode, node) ==
  LET first == L.next[nextNode] IN
  IF first = NULL
  THEN [L EXCEPT !.err = "TypeError"]
  ELSE LET n1 == [L.next EXCEPT ![nextNode] = node]
           p1 == [L.prev EXCEPT ![first] = node]
           p2 == [p1 EXCEPT ![node] = nextNode]
           n2 == [n1 EXCEPT ![node] = first]
       IN [L EXCEPT !.next = n2, !.prev = p2]

\* Variant: a null `last` is skipped (`if (last) last._next = node`) and the
\* node is linked to the disposed emitter.
_insertBefore_nullTolerant(L, nextNode, node) ==
  LET lst == L.prev[nextNode]
      n1 == IF lst = NULL THEN L.next ELSE [L.next EXCEPT ![lst] = node]
  IN [L EXCEPT !.next = [n1 EXCEPT ![node] = nextNode],
               !.prev = [[L.prev EXCEPT ![nextNode] = node] EXCEPT ![node] = lst]]

\* Variant: `next._prev = node` is missing.
_insertBefore_noBackLink(L, nextNode, node) ==
  LET lst == L.prev[nextNode] IN
  IF lst = NULL
  THEN [L EXCEPT !.err = "TypeError"]
  ELSE [L EXCEPT !.next = [[L.next EXCEPT ![lst] = node] EXCEPT ![node] = nextNode],
                 !.prev = [L.prev EXCEPT ![node] = lst]]

_insertBefore(L, nextNode, node) ==
  LET lst == L.prev[nextNode] IN
  IF lst = NULL
  THEN [L EXCEPT !.err = "TypeError"]               \* last._next on null
  ELSE LET n1 == [L.next EXCEPT ![lst] = node]         \* last._next = node
           p1 == [L.prev EXCEPT ![nextNode] = node]    \* next._prev = node
           p2 == [p1 EXCEPT ![node] = lst]             \* node._prev = last
           n2 == [n1 EXCEPT ![node] = nextNode]        \* node._next = next
       IN [L EXCEPT !.next = n2, !.prev = p2]

\* Variant: the successor's _prev is left pointing at the removed node.
_removeNode_keepsBackLink(L, node) ==
  LET n1 == IF L.prev[node] # NULL
            THEN [L.next EXCEPT ![L.prev[node]] = L.next[node]]
            ELSE L.next
  IN [L EXCEPT !.next = [n1 EXCEPT ![node] = NULL],
               !.prev = [L.prev EXCEPT ![node] = NULL]]

\* Variant: only the node's own links are nulled; its neighbours keep
\* pointing at it.
_removeNode_ownLinksOnly(L, node) ==
  [L EXCEPT !.next = [L.next EXCEPT ![node] = NULL],
            !.prev = [L.prev EXCEPT ![node] = NULL]]

\* Variant: the neighbours are relinked but only _prev of the node is
\* nulled.
_removeNode_halfNull(L, node) ==
  LET n1 == [L.next EXCEPT ![L.prev[node]] = L.next[node]]
      p1 == [L.prev EXCEPT ![L.next[node]] = L.prev[node]]
  IN [L EXCEPT !.next = n1, !.prev = [p1 EXCEPT ![node] = NULL]]

_removeNode(L, node) ==
  LET unlinked ==
        IF L.prev[node] # NULL
        THEN LET n1 == [L.next EXCEPT ![L.prev[node]] = L.next[node]]
             IN IF n1[node] = NULL
                THEN [L EXCEPT !.next = n1, !.err = "TypeError"]
                ELSE [L EXCEPT !.next = n1,
                               !.prev = [L.prev EXCEPT ![n1[node]] = L.prev[node]]]
        ELSE L
  IN IF unlinked.err # "ok" THEN unlinked
     ELSE [unlinked EXCEPT !.next = [unlinked.next EXCEPT ![node] = NULL],
                           !.prev = [unlinked.prev EXCEPT ![node] = NULL]]

\* The while loop of _disposeList: one iteration per call.  `fuel` counts the
\* iterations left before the walk is declared not to terminate.
RECURSIVE disposeLoop(_, _, _, _)
disposeLoop(L, node, nxt, fuel) ==
  IF nxt = NULL THEN L
  ELSE IF fuel = 0 THEN [L EXCEPT !.err = "diverges"]
  ELSE LET L1 == [L EXCEPT !.next = [L.next EXCEPT ![node] = NULL],
                           !.prev = [L.prev EXCEPT ![node] = NULL]]
       IN disposeLoop(L1, nxt, L1.next[nxt], fuel - 1)

\* Variant: only the sentinel is unlinked; the list is not walked.
_disposeList_sentinelOnly(L, this) ==
  [L EXCEPT !.next = [L.next EXCEPT ![this] = NULL],
            !.prev = [L.prev EXCEPT ![this] = NULL]]

_disposeList(L, this) ==
  disposeLoop(L, this, L.next[this], Cardinality(DOMAIN L.next) + 1)

\* ---------------------------------------------------------- Emitter code
\* Variant: the comparison is inverted.
hasListeners_inverted(nx) == nx[E] = E

\* hasListeners(): return this._next !== this;
hasListeners(nx) == nx[E] # E

\* _triggerChangeCB(): the calls of the change callback it makes, each with
\* the function called and its argument.  _noop is not a user callback.
_triggerChangeCB(cb, nx) ==
  IF cb = _noop THEN <<>> ELSE <<[cb |-> cb, arg |-> hasListeners(nx)]>>

\* Variant: `changeCB && _noop` for `changeCB || _noop`: a function given
\* is replaced by _noop.
setChangeCB_andNoop(c) == _noop

\* setChangeCB(changeCB): this._changeCB = changeCB || _noop;
setChangeCB(c) == IF c = "null" THEN _noop ELSE c

\* --------------------------------------------------------- Listener code
\* callAll, the loop test and the fetch of the listener to call:
\* "return" when begin === end, "TypeError" when lis is null, else "call".
callAllTest(begin, end) ==
  IF begin = end THEN "return"
  ELSE IF begin = NULL THEN "TypeError"
  ELSE "call"

\* callAll, after the callback returned: begin = lis._next
\* Variant: the loop forgets `begin = lis._next`.
callAllAdvance_stay(nx, lis) == lis

callAllAdvance(nx, lis) == nx[lis]

\* ------------------------------------------------------- history helpers
\* The listeners linked in the list, in list order, found by following
\* _next from the emitter until the emitter (or a null link) is met.
RECURSIVE Walk(_, _, _)
Walk(nx, node, fuel) ==
  IF node = E \/ node = NULL \/ fuel = 0 THEN <<>>
  ELSE <<node>> \o Walk(nx, nx[node], fuel - 1)

ListOrder(nx) == Walk(nx, nx[E], Cardinality(DOMAIN nx))

Range(s) == {s[i] : i \in DOMAIN s}

CalledLis(called) == [i \in DOMAIN called |-> called[i].lis]

NoPass ==
  [done |-> FALSE, lis |-> E, args |-> "x", snap |-> <<>>, called |-> <<>>,
   disposedBefore |-> {}, disposedSelf |-> {}, added |-> {},
   outcome |-> "none"]

\* op: the operation; target: the listener it was called on or created;
\* outcome: "ok" or the error it raised; changeCalls: the change-callback
\* calls it made; invoked: the listener whose callback it has just called
\* (E: none); gone: the listeners it unlinked; pass: the emit pass it ended;
\* arg: the argument given to setChangeCB.
NoOp ==
  [op |-> "new", target |-> E, outcome |-> "ok", changeCalls |-> <<>>,
   invoked |-> E, gone |-> {}, pass |-> NoPass, arg |-> "none"]

\* A frame of stack: lis and args are callAll's local variables (end is
\* always the emitter); the rest is the history of the pass.
NewFrame(lis, args, nx, cbs) ==
  [lis |-> lis, args |-> args, snap |-> ListOrder(nx),
   called |-> <<[lis |-> lis, cb |-> cbs[lis], args |-> args]>>,
   disposedBefore |-> {}, disposedSelf |-> {}, added |-> {}]

Finished(f, outcome) ==
  [done |-> TRUE, lis |-> f.lis, args |-> f.args, snap |-> f.snap,
   called |-> f.called, disposedBefore |-> f.disposedBefore,
   disposedSelf |-> f.disposedSelf, added |-> f.added, outcome |-> outcome]

\* A pass that calls no callback: emit() on an empty or a disposed list.
EmptyPass(args, nx, outcome) ==
  [NoPass EXCEPT !.done = TRUE, !.args = args, !.snap = ListOrder(nx),
                 !.outcome = outcome]

\* Every pass in progress notes a listener that a running callback added,
\* the listeners unlinked before the pass had called them, and the listener
\* unlinked while the pass was running its callback.
NoteAdd(stk, node) ==
  [i \in DOMAIN stk |-> [stk[i] EXCEPT !.added = @ \cup {node}]]

NoteDispose(stk, gone) ==
  [i \in DOMAIN stk |->
     [stk[i] EXCEPT
        !.disposedBefore = @ \cup (gone \ Range(CalledLis(stk[i].called))),
        !.disposedSelf = @ \cup (gone \cap {stk[i].lis})]]

\* The listeners whose _next an operation has set to null.
Unlinked(nx, nx1) == {l \in DOMAIN nx \ {E} : nx[l] # NULL /\ nx1[l] = NULL}

Top == stack[Len(stack)]
Pop(stk, k) == SubSeq(stk, 1, Len(stk) - k)

\* ------------------------------------------------------------------ Init
\* new Emitter(): the LLink constructor links the emitter to itself.
Init ==
  /\ next = (E :> E)
  /\ prev = (E :> E)
  /\ callback = <<>>
  /\ changeCB = _noop
  /\ stack = <<>>
  /\ last = NoOp

\* --------------------------------------------------------------- actions
\* In each action k is the number of emit passes an error aborts before a
\* callback catches it (all of them: nobody catches it).
\* Emitter.addListener(callback) -> new Listener(this, callback)
AddListener(cb) ==
  LET node == Cardinality(Nodes)
      L0 == LLinkNew(Links(next, prev), node)
      L1 == _insertBefore(L0, E, node)
  IN IF L1.err # "ok"
     THEN \E k \in 0..Len(stack) :
            /\ stack' = Pop(stack, k)
            /\ last' = [NoOp EXCEPT !.op = "addListener", !.outcome = L1.err]
            /\ UNCHANGED <<next, prev, callback, changeCB>>
     ELSE /\ node <= MaxListeners
          /\ next' = L1.next
          /\ prev' = L1.prev
          /\ callback' = Append(callback, cb)
          /\ stack' = NoteAdd(stack, node)
          /\ last' = [NoOp EXCEPT !.op = "addListener", !.target = node,
                        !.changeCalls = _triggerChangeCB(changeCB, L1.next)]
          /\ UNCHANGED changeCB

\* Variant: dispose() unlinks every linked listener that has the callback
\* of this one.
ListenerDispose_byCallback(lis) ==
  /\ lis \in Listeners
  /\ IF isDisposed(next, lis)
     THEN /\ last' = [NoOp EXCEPT !.op = "Listener.dispose", !.target = lis]
          /\ UNCHANGED <<next, prev, callback, changeCB, stack>>
     ELSE LET RECURSIVE removeEach(_, _)
              removeEach(L, S) ==
                IF S = {} THEN L
                ELSE LET n == CHOOSE x \in S : TRUE
                     IN removeEach(_removeNode(L, n), S \ {n})
              L1 == removeEach(Links(next, prev),
                               {l \in Listeners : /\ callback[l] = callback[lis]
                                                  /\ next[l] # NULL})
              gone == Unlinked(next, L1.next)
          IN /\ next' = L1.next
             /\ prev' = L1.prev
             /\ \E k \in 0..Len(stack) :
                  /\ (L1.err = "ok") => (k = 0)
                  /\ stack' = Pop(NoteDispose(stack, gone), k)
                  /\ last' = [NoOp EXCEPT
                       !.op = "Listener.dispose", !.target = lis, !.outcome = L1.err,
                       !.gone = gone,
                       !.changeCalls = IF L1.err = "ok"
                                       THEN _triggerChangeCB(changeCB, L1.next)
                                       ELSE <<>>]
             /\ UNCHANGED <<callback, changeCB>>

\* Listener.dispose()
ListenerDispose(lis) ==
  /\ lis \in Listeners
  /\ IF isDisposed(next, lis)
     THEN /\ last' = [NoOp EXCEPT !.op = "Listener.dispose", !.target = lis]
          /\ UNCHANGED <<next, prev, callback, changeCB, stack>>
     ELSE LET L1 == _removeNode(Links(next, prev), lis)
              gone == Unlinked(next, L1.next)
          IN /\ next' = L1.next
             /\ prev' = L1.prev
             /\ \E k \in 0..Len(stack) :
                  /\ (L1.err = "ok") => (k = 0)
                  /\ stack' = Pop(NoteDispose(stack, gone), k)
                  /\ last' = [NoOp EXCEPT
                       !.op = "Listener.dispose", !.target = lis, !.outcome = L1.err,
                       !.gone = gone,
                       !.changeCalls = IF L1.err = "ok"
                                       THEN _triggerChangeCB(changeCB, L1.next)
                                       ELSE <<>>]
             /\ UNCHANGED <<callback, changeCB>>

\* Variant: emit() returns at once when an emit() of this emitter is already
\* in progress.
Emit_guarded(args) ==
  /\ Len(stack) < MaxDepth
  /\ IF stack # <<>>
     THEN /\ stack' = stack
          /\ last' = [NoOp EXCEPT !.op = "emit",
                                  !.pass = EmptyPass(args, next, "ok")]
     ELSE /\ next[E] \notin {E, NULL}
          /\ stack' = <<NewFrame(next[E], args, next, callback)>>
          /\ last' = [NoOp EXCEPT !.op = "emit", !.invoked = next[E]]
  /\ UNCHANGED <<next, prev, callback, changeCB>>

\* Emitter.emit(...args) -> Listener.callAll(this._next, this, args), up to
\* the first callback it calls.
Emit(args) ==
  /\ Len(stack) < MaxDepth
  /\ LET begin == next[E]
         test == callAllTest(begin, E)
     IN CASE test = "call" ->
               /\ stack' = Append(stack, NewFrame(begin, args, next, callback))
               /\ last' = [NoOp EXCEPT !.op = "emit", !.invoked = begin]
          [] test = "return" ->
               /\ stack' = stack
               /\ last' = [NoOp EXCEPT !.op = "emit",
                                       !.pass = EmptyPass(args, next, "ok")]
          [] test = "TypeError" ->
               \E k \in 0..Len(stack) :
                 /\ stack' = Pop(stack, k)
                 /\ last' = [NoOp EXCEPT !.op = "emit", !.outcome = "TypeError",
                      !.pass = EmptyPass(args, next, "TypeError")]
  /\ UNCHANGED <<next, prev, callback, changeCB>>

\* The running callback returns: callAll advances to lis._next and tests the
\* loop condition again.
CallbackReturn ==
  /\ stack # <<>>
  /\ LET begin == callAllAdvance(next, Top.lis)
         test == callAllTest(begin, E)
     IN CASE test = "call" ->
               /\ stack' = [stack EXCEPT ![Len(stack)] =
                    [@ EXCEPT !.lis = begin,
                              !.called = Append(@, [lis |-> begin,
                                                    cb |-> callback[begin],
                                                    args |-> Top.args])]]
               /\ last' = [NoOp EXCEPT !.op = "return", !.invoked = begin]
          [] test = "return" ->
               /\ stack' = Pop(stack, 1)
               /\ last' = [NoOp EXCEPT !.op = "return",
                                       !.pass = Finished(Top, "ok")]
          [] test = "TypeError" ->
               \E k \in 1..Len(stack) :
                 /\ stack' = Pop(stack, k)
                 /\ last' = [NoOp EXCEPT !.op = "return", !.outcome = "TypeError",
                      !.pass = Finished(Top, "TypeError")]
  /\ UNCHANGED <<next, prev, callback, changeCB>>

\* Variant: callAll catches what the callback throws and goes on to the
\* next listener.
CallbackThrow_caught ==
  /\ stack # <<>>
  /\ LET begin == callAllAdvance(next, Top.lis)
     IN IF callAllTest(begin, E) = "call"
        THEN /\ stack' = [stack EXCEPT ![Len(stack)] =
                    [@ EXCEPT !.lis = begin,
                              !.called = Append(@, [lis |-> begin,
                                                    cb |-> callback[begin],
                                                    args |-> Top.args])]]
             /\ last' = [NoOp EXCEPT !.op = "throw", !.invoked = begin]
        ELSE /\ stack' = Pop(stack, 1)
             /\ last' = [NoOp EXCEPT !.op = "throw",
                                     !.pass = Finished(Top, "ok")]
  /\ UNCHANGED <<next, prev, callback, changeCB>>

\* The running callback throws: callAll has no try/catch, so the error
\* leaves emit().
CallbackThrow ==
  /\ stack # <<>>
  /\ \E k \in 1..Len(stack) :
       /\ stack' = Pop(stack, k)
       /\ last' = [NoOp EXCEPT !.op = "throw", !.outcome = "thrown",
                               !.pass = Finished(Top, "thrown")]
  /\ UNCHANGED <<next, prev, callback, changeCB>>

\* Emitter.dispose()
EmitterDispose ==
  LET L1 == _disposeList(Links(next, prev), E)
      gone == Unlinked(next, L1.next)
  IN /\ next' = L1.next
     /\ prev' = L1.prev
     /\ changeCB' = _noop
     /\ stack' = NoteDispose(stack, gone)
     /\ last' = [NoOp EXCEPT !.op = "Emitter.dispose", !.outcome = L1.err,
                             !.gone = gone]
     /\ UNCHANGED callback

\* Emitter.setChangeCB(changeCB)
SetChangeCB(c) ==
  /\ changeCB' = setChangeCB(c)
  /\ last' = [NoOp EXCEPT !.op = "setChangeCB", !.arg = c]
  /\ UNCHANGED <<next, prev, callback, stack>>

\* The operations the environment may call, at top level or from inside a
\* running callback, with their inputs drawn from the given sets.
NextOver(cbs, argss, ccbs) ==
  \/ \E cb \in cbs : AddListener(cb)
  \/ \E lis \in Listeners : ListenerDispose(lis)
  \/ \E args \in argss : Emit(args)
  \/ CallbackReturn
  \/ CallbackThrow
  \/ EmitterDispose
  \/ \E c \in ccbs : SetChangeCB(c)

Next == NextOver(ListenerCBs, Args, ChangeCBs \cup {"null"})

Spec == Init /\ [][Next]_vars

\* The same program with one listener callback, one argument list and one
\* change callback: the code never inspects any of them, so the behaviours
\* differ from those of Spec only in these data.
NextPlain == NextOver({"cbA"}, {"x"}, {"f", "null"})

SpecPlain == Init /\ [][NextPlain]_vars

\* ---------------------------------------------------- claim vocabulary
\* The emit pass that the last step ended (done = FALSE: it ended none).
P == last.pass

Linked(l) == next[l] # NULL /\ prev[l] # NULL
FullyUnlinked(l) == next[l] = NULL /\ prev[l] = NULL
LinkedListeners == {l \in Listeners : next[l] # NULL}

\* The listeners of S in registration order (ids grow with registration).
InOrder(S) ==
  LET ids == [i \in 1..Cardinality(Listeners) |-> i]
      In(i) == i \in S
  IN SelectSeq(ids, In)

\* The listeners of sequence s that are not in S, order kept.
Without(s, S) ==
  LET Keep(l) == l \notin S
  IN SelectSeq(s, Keep)

\* The circular list is well formed: neighbours point back at each other,
\* and following _next from the emitter visits each linked listener once and
\* comes back to the emitter.
WellFormed ==
  LET order == ListOrder(next)
      ring == {E} \cup Range(order)
  IN /\ \A n \in ring : /\ next[n] \in ring
                        /\ prev[n] \in ring
                        /\ prev[next[n]] = n
                        /\ next[prev[n]] = n
     /\ Cardinality(Range(order)) = Len(order)
     /\ Range(order) = LinkedListeners
     /\ next[IF order = <<>> THEN E ELSE order[Len(order)]] = E

\* What the callbacks of the ended pass did to the list.
AddedNone == P.added = {}
DisposedInPass == {l \in Range(P.snap) \cup P.added : next[l] = NULL}
EmitterLive == next[E] # NULL
Unmutated == AddedNone /\ DisposedInPass = {} /\ EmitterLive

\* ------------------------------------------------------------------ C1
\* C1: an emit() on a live emitter whose callbacks do not mutate the emitter
\* (and do not throw) ends without error having called the callback of every
\* linked listener exactly once, in registration order, each with the
\* arguments given to emit(), and no other callback.
C1_EmitCallsLinkedInOrder ==
  (P.done /\ P.outcome # "thrown" /\ Unmutated) =>
     /\ P.outcome = "ok"
     /\ CalledLis(P.called) = InOrder(LinkedListeners)
     /\ \A i \in DOMAIN P.called :
          /\ P.called[i].args = P.args
          /\ P.called[i].cb = callback[P.called[i].lis]

C1_Witness ==
  /\ P.done /\ P.outcome = "ok" /\ Unmutated
  /\ CalledLis(P.called) = <<1, 3>>
  /\ P.args = "y"

\* ------------------------------------------------------------------ C2
\* C2: when a running callback disposes its own listener and nothing else
\* is changed during the pass, emit() raises no error, calls every listener
\* that was linked, and leaves the list well formed.
OnlySelfDisposed ==
  /\ P.disposedSelf # {}
  /\ DisposedInPass = P.disposedSelf
  /\ AddedNone /\ EmitterLive

C2_SelfDisposeDuringEmit ==
  (P.done /\ P.outcome # "thrown" /\ OnlySelfDisposed) =>
     /\ P.outcome = "ok"
     /\ CalledLis(P.called) = P.snap
     /\ WellFormed

\* ------------------------------------------------------------------ C3
\* C3: when callbacks dispose only listeners other than the running one
\* (earlier or later in the list) and nothing else is changed, emit() raises
\* no error, calls exactly the listeners not disposed before their turn, in
\* registration order and once each, and leaves a well-formed list holding
\* exactly the listeners that were not disposed.
OnlyOthersDisposed ==
  /\ DisposedInPass # {}
  /\ P.disposedSelf = {}
  /\ AddedNone /\ EmitterLive

C3_DisposeOthersDuringEmit ==
  (P.done /\ P.outcome # "thrown" /\ OnlyOthersDisposed) =>
     /\ P.outcome = "ok"
     /\ CalledLis(P.called) = Without(P.snap, P.disposedBefore)
     /\ WellFormed
     /\ ListOrder(next) = Without(P.snap, DisposedInPass)

\* listener 1 disposes listener 2 (later), listener 3 is still called
C3_Witness ==
  /\ P.done /\ P.outcome = "ok" /\ OnlyOthersDisposed
  /\ P.snap = <<1, 2, 3>>
  /\ CalledLis(P.called) = <<1, 3>>

\* ------------------------------------------------------------------ C4
\* C4 as stated: a listener added while a pass is in progress is not called
\* in that pass.
Passes == Range(stack) \cup (IF P.done THEN {P} ELSE {})

C4_AddedNotCalledInSamePass ==
  \A f \in Passes : Range(CalledLis(f.called)) \cap f.added = {}

\* C4 amended: a pass that ends without error has called, after the
\* listeners linked when it began, every listener added during the pass, in
\* registration order and once each, except those disposed before their turn.
C4_AddedCalledInSamePass ==
  (P.done /\ P.outcome = "ok") =>
     CalledLis(P.called) =
        InOrder((Range(P.snap) \cup P.added) \ P.disposedBefore)

C4_Witness ==
  /\ P.done /\ P.outcome = "ok"
  /\ P.snap = <<1>>
  /\ P.added = {2}
  /\ CalledLis(P.called) = <<1, 2>>

\* ------------------------------------------------------------------ C5
\* C5: once Listener.dispose() has returned for a listener, isDisposed() is
\* true of it in every later state and no later step calls its callback;
\* and a listener stops being linked only in a step of its own dispose() or
\* of Emitter.dispose().
DisposedStep ==
     \A l \in Listeners :
       /\ (last'.op = "Listener.dispose" /\ last'.target = l
           /\ last'.outcome = "ok") => isDisposed(next', l)
       /\ isDisposed(next, l) => (isDisposed(next', l) /\ last'.invoked # l)
       /\ (next[l] # NULL /\ next'[l] = NULL) =>
             \/ last'.op = "Listener.dispose" /\ last'.target = l
             \/ last'.op = "Emitter.dispose"

C5_DisposedForever == [][DisposedStep]_vars

\* a pass has ended that began after listener 1 was disposed, and called 2
C5_Witness ==
  /\ Listeners = {1, 2}
  /\ isDisposed(next, 1)
  /\ P.done /\ P.outcome = "ok"
  /\ P.snap = <<2>>
  /\ CalledLis(P.called) = <<2>>
  /\ changeCB = "f"

\* ------------------------------------------------------------------ C6
\* C6: hasListeners() is true exactly when at least one listener is linked.
C6_HasListenersIffLinked ==
  hasListeners(next) <=> (LinkedListeners # {})

\* ------------------------------------------------------------------ C7
\* C7: every listener is either linked in the emitter's list (both links
\* set, and met by following _next from the emitter) or fully unlinked
\* (both links null).
C7_LinkedOrFullyUnlinked ==
  \A l \in Listeners :
     \/ Linked(l) /\ l \in Range(ListOrder(next))
     \/ FullyUnlinked(l)

C7_Witness ==
  /\ Listeners = {1, 2, 3}
  /\ last.op = "Listener.dispose" /\ last.gone = {2}
  /\ Linked(1) /\ FullyUnlinked(2) /\ Linked(3)

\* ------------------------------------------------------------------ C8
\* C8: Emitter.dispose() ends, leaves the emitter and every listener with
\* both links null, leaves _noop as the change callback, and calls neither
\* a listener callback nor the change callback.
C8_EmitterDispose ==
  (last.op = "Emitter.dispose") =>
     /\ last.outcome = "ok"
     /\ \A n \in Nodes : next[n] = NULL /\ prev[n] = NULL
     /\ \A l \in Listeners : isDisposed(next, l)
     /\ changeCB = _noop
     /\ last.changeCalls = <<>>
     /\ last.invoked = E

C8_Witness ==
  /\ last.op = "Emitter.dispose"
  /\ last.gone = {1, 3}
  /\ Listeners = {1, 2, 3}

\* ------------------------------------------------------------------ C9
\* C9: emit() on a disposed emitter calls no callback and raises no error.
C9_EmitAfterDisposeSilent ==
  (last.op = "emit" /\ next[E] = NULL) =>
     (last.outcome = "ok" /\ last.invoked = E)

\* ----------------------------------------------------------------- C10
\* C10: a dispose() of a listener that is already disposed, and a dispose()
\* of an emitter that is already disposed, raises no error, changes no link
\* and calls no change callback; two dispose() calls in a row leave the
\* program state that the first one left.
ProgramState == <<next, prev, callback, changeCB, stack>>

RedisposeStep ==
      /\ (last'.op = "Listener.dispose" /\ next[last'.target] = NULL) =>
           /\ last'.outcome = "ok"
           /\ last'.changeCalls = <<>>
           /\ ProgramState' = ProgramState
      /\ (last'.op = "Emitter.dispose" /\ next[E] = NULL) =>
           /\ last'.outcome = "ok"
           /\ last'.changeCalls = <<>>
           /\ next' = next /\ prev' = prev
           /\ callback' = callback /\ stack' = stack
      /\ (last'.op = "Emitter.dispose" /\ last.op = "Emitter.dispose") =>
           ProgramState' = ProgramState
      /\ (last'.op = "Listener.dispose" /\ last.op = "Listener.dispose"
          /\ last'.target = last.target /\ last.outcome = "ok") =>
           ProgramState' = ProgramState

C10_DisposeIdempotent == [][RedisposeStep]_vars

\* a second dispose() of listener 1, with a change callback installed and
\* another listener still linked
C10_Witness ==
  /\ last.op = "Listener.dispose" /\ last.target = 1 /\ last.gone = {}
  /\ changeCB = "f"
  /\ Listeners = {1, 2}
  /\ Linked(2)

\* ----------------------------------------------------------------- C11
\* C11: an addListener that registers a listener, and a Listener.dispose
\* that unlinks one, calls the installed change callback exactly once, with
\* the argument telling whether a listener is linked after the operation
\* (true after an add, false exactly when the last listener went); no other
\* operation calls it.
OneChangeCall(arg) ==
  IF changeCB = _noop THEN <<>> ELSE <<[cb |-> changeCB, arg |-> arg]>>

C11_ChangeCBCalls ==
  /\ (last.op = "addListener" /\ last.outcome = "ok") =>
        /\ last.changeCalls = OneChangeCall(TRUE)
        /\ LinkedListeners # {}
  /\ (last.op = "Listener.dispose" /\ last.gone # {}) =>
        last.changeCalls = OneChangeCall(LinkedListeners # {})
  /\ (~(last.op = "addListener" /\ last.outcome = "ok")
      /\ ~(last.op = "Listener.dispose" /\ last.gone # {})) =>
        last.changeCalls = <<>>

\* the last linked listener is disposed: the change callback is told FALSE
C11_Witness ==
  /\ Listeners = {1, 2}
  /\ last.op = "Listener.dispose" /\ last.gone = {1}
  /\ last.changeCalls = <<[cb |-> "f", arg |-> FALSE]>>

\* ----------------------------------------------------------------- C12
\* C12: the emitter holds one change callback, the one given to the latest
\* setChangeCB: _changeCB changes only in a setChangeCB step, to the
\* function given (to _noop for null), or in an Emitter.dispose step; every
\* change-callback call is a call of the function held at that moment, and
\* with _noop held no user callback is called and no error is raised.
ChangeCBStep ==
  /\ (last'.op = "setChangeCB") =>
        changeCB' = (IF last'.arg = "null" THEN _noop ELSE last'.arg)
  /\ (changeCB' # changeCB) => last'.op \in {"setChangeCB", "Emitter.dispose"}
  /\ \A i \in DOMAIN last'.changeCalls :
        /\ last'.changeCalls[i].cb = changeCB
        /\ last'.changeCalls[i].cb # _noop
  /\ (changeCB = _noop /\ last'.op \in {"addListener", "Listener.dispose"}
      /\ next[E] # NULL) =>
        (last'.changeCalls = <<>> /\ last'.outcome = "ok")

C12_LastWriterWins == [][ChangeCBStep]_vars

\* with g installed over f or over nothing, an add calls g
C12_Witness ==
  /\ changeCB = "g"
  /\ Listeners = {1, 2}
  /\ last.op = "addListener"
  /\ last.changeCalls = <<[cb |-> "g", arg |-> TRUE]>>

\* ----------------------------------------------------------------- C13
\* C13: when a callback throws, the error leaves emit() and the pass ends
\* there: the listeners called are those up to the throwing one, in order,
\* none after it; and if the callbacks changed nothing, the list is the one
\* the pass began with, well formed and in registration order.
IsPrefix(s, t) == Len(s) <= Len(t) /\ s = SubSeq(t, 1, Len(s))

C13_ThrowLeavesEmit ==
  (last.op = "throw") =>
     /\ last.outcome = "thrown" /\ last.invoked = E
     /\ P.done /\ P.outcome = "thrown"
     /\ P.called # <<>>
     /\ P.called[Len(P.called)].lis = P.lis
     /\ IsPrefix(CalledLis(P.called),
                 InOrder((Range(P.snap) \cup P.added) \ P.disposedBefore))
     /\ Unmutated =>
          /\ IsPrefix(CalledLis(P.called), P.snap)
          /\ ListOrder(next) = P.snap
          /\ P.snap = InOrder(LinkedListeners)
          /\ WellFormed

\* listener 2 of three throws: 1 and 2 were called, 3 was not
C13_Witness ==
  /\ last.op = "throw" /\ Unmutated
  /\ P.snap = <<1, 2, 3>>
  /\ CalledLis(P.called) = <<1, 2>>

\* ----------------------------------------------------------------- C14
\* C14: in every reachable state in which the emitter is not disposed, also
\* while callbacks are running, the list is well formed: n._next._prev = n
\* and n._prev._next = n for every node in it, and following _next from the
\* emitter comes back to it after each linked listener exactly once.
C14_WellFormedList == EmitterLive => WellFormed

\* inside a callback of a nested emit, after a listener was disposed there
C14_Witness ==
  /\ Len(stack) = 2
  /\ last.op = "Listener.dispose" /\ last.gone = {2}
  /\ ListOrder(next) = <<1, 3>>

\* ----------------------------------------------------------------- C15
\* C15: a Listener.dispose() that unlinks listener l nulls the two links of
\* l, sets _next of its predecessor and _prev of its successor, and writes
\* no other link: the other listeners stay linked in the same order.  An
\* addListener links the new node between the old tail and the emitter and
\* leaves the order of the listeners already there.
FrameStep ==
  /\ (last'.op = "Listener.dispose" /\ last'.outcome = "ok"
      /\ next[last'.target] # NULL) =>
        LET l == last'.target
        IN /\ next' = [[next EXCEPT ![prev[l]] = next[l]] EXCEPT ![l] = NULL]
           /\ prev' = [[prev EXCEPT ![next[l]] = prev[l]] EXCEPT ![l] = NULL]
           /\ ListOrder(next') = Without(ListOrder(next), {l})
  /\ (last'.op = "addListener" /\ last'.outcome = "ok") =>
        LET n == last'.target
            tail == prev[E]
        IN /\ n \notin DOMAIN next
           /\ next'[n] = E /\ prev'[n] = tail
           /\ prev'[E] = n /\ next'[tail] = n
           /\ \A m \in DOMAIN next \ {tail} : next'[m] = next[m]
           /\ \A m \in DOMAIN prev \ {E} : prev'[m] = prev[m]
           /\ ListOrder(next') = Append(ListOrder(next), n)

C15_DisposeAndAddFrame == [][FrameStep]_vars

\* listener 3 is added at the tail after listener 1 was removed
C15_Witness ==
  /\ last.op = "addListener" /\ last.target = 3
  /\ ListOrder(next) = <<2, 3>>
  /\ FullyUnlinked(1)

\* ----------------------------------------------------------------- C16
\* C16: Listener.dispose() on a listener of a disposed emitter raises no
\* error, leaves every link null and calls no change callback, also one
\* installed after the emitter was disposed.
C16_DisposeAfterEmitterDispose ==
  (last.op = "Listener.dispose" /\ next[E] = NULL) =>
     /\ last.outcome = "ok"
     /\ last.changeCalls = <<>>
     /\ last.gone = {}
     /\ \A n \in Nodes : next[n] = NULL /\ prev[n] = NULL

\* the change callback f was installed after Emitter.dispose() had reset it
C16_Witness ==
  /\ last.op = "Listener.dispose" /\ next[E] = NULL
  /\ Listeners = {1, 2}
  /\ changeCB = "f"

\* ----------------------------------------------------------------- C17
\* C17: an emit() called by a running callback runs as a pass of its own,
\* to its end, before the outer pass moves on: when it ends (the callbacks
\* having changed nothing) it has called every linked listener in
\* registration order, the running one and those the outer pass had already
\* called included, and the outer pass is where it was, having called a
\* prefix of the listeners; and every pass, outer or inner, that ends so has
\* called every linked listener once.
OuterUntouched ==
  /\ Top.added = {}
  /\ \A l \in Range(Top.snap) : next[l] # NULL

C17_NestedEmit ==
  /\ (P.done /\ P.outcome = "ok" /\ Unmutated /\ stack # <<>>
      /\ OuterUntouched) =>
        /\ CalledLis(P.called) = InOrder(LinkedListeners)
        /\ Top.lis \in Range(CalledLis(P.called))
        /\ IsPrefix(CalledLis(Top.called), InOrder(LinkedListeners))
        /\ Top.called[Len(Top.called)].lis = Top.lis
  /\ (P.done /\ P.outcome = "ok" /\ Unmutated) =>
        CalledLis(P.called) = InOrder(LinkedListeners)

\* an emit() called by listener 2 of three has ended: it called 1, 2, 3, and
\* the outer pass has called 1 and 2
C17_Witness ==
  /\ P.done /\ P.outcome = "ok" /\ Unmutated
  /\ Len(stack) = 1
  /\ CalledLis(P.called) = <<1, 2, 3>>
  /\ CalledLis(Top.called) = <<1, 2>>

\* ----------------------------------------------------------------- C18
\* C18: addListener on a disposed emitter raises an error and registers
\* nothing: every link stays null, no listener is linked, the change
\* callback is not called; and an emit() on the disposed emitter calls no
\* callback.
C18_AddAfterEmitterDispose ==
  /\ (last.op = "addListener" /\ next[E] = NULL) =>
        /\ last.outcome = "TypeError"
        /\ last.target = E
        /\ last.changeCalls = <<>>
        /\ \A n \in Nodes : next[n] = NULL /\ prev[n] = NULL
        /\ ListOrder(next) = <<>>
  /\ (last.op = "emit" /\ next[E] = NULL) => last.invoked = E

\* the change callback f was installed after the emitter was disposed
C18_Witness ==
  /\ last.op = "addListener" /\ last.outcome = "TypeError"
  /\ Listeners = {1, 2}
  /\ changeCB = "f"

\* ----------------------------------------------------------------- C19
\* C19: a pass during which no listener is added calls at most as many
\* callbacks as there were linked listeners when it began, each listener at
\* most once and in list order; a pass in progress stands at a listener,
\* never at the emitter; and a pass that has returned had reached the
\* emitter: the _next of the listener it called last is the emitter, and no
\* listener that is still linked was left out.
NoRepeat(s) == \A i, j \in DOMAIN s : s[i] = s[j] => i = j

C19_EmitTerminates ==
  /\ \A f \in Passes :
       f.added = {} =>
         /\ Len(f.called) <= Len(f.snap)
         /\ NoRepeat(CalledLis(f.called))
         /\ CalledLis(f.called) = InOrder(Range(CalledLis(f.called)))
         /\ Range(CalledLis(f.called)) \subseteq Range(f.snap)
  /\ \A i \in DOMAIN stack : stack[i].lis \in Listeners
  /\ (P.done /\ P.outcome = "ok" /\ P.called # <<>>) => next[P.lis] = E
  /\ (P.done /\ P.outcome = "ok" /\ AddedNone) =>
       LinkedListeners \cap Range(P.snap) \subseteq Range(CalledLis(P.called))

\* a pass over three listeners has returned after three calls, the first
\* listener having been disposed by a later one
C19_Witness ==
  /\ P.done /\ P.outcome = "ok" /\ AddedNone
  /\ Len(P.snap) = 3 /\ Len(P.called) = 3
  /\ DisposedInPass = {1}
  /\ next[P.lis] = E

\* ----------------------------------------------------------------- C20
\* C20: listeners are told apart by identity, not by callback: a pass that
\* ends with the list unchanged has called each callback as many times as
\* there are linked listeners holding it, at their positions in the list;
\* Listener.dispose() unlinks no listener but its own; addListener links a
\* new listener at the tail whatever callbacks are already registered.
TimesCalled(c) == Cardinality({i \in DOMAIN P.called : P.called[i].cb = c})
Registered(c) == {l \in LinkedListeners : callback[l] = c}

C20_IndependentRegistrations ==
  /\ (P.done /\ P.outcome = "ok" /\ Unmutated) =>
       /\ \A c \in ListenerCBs : TimesCalled(c) = Cardinality(Registered(c))
       /\ Len(P.called) = Cardinality(LinkedListeners)
       /\ \A i \in DOMAIN P.called :
            /\ P.called[i].lis = InOrder(LinkedListeners)[i]
            /\ P.called[i].cb = callback[P.called[i].lis]
  /\ (last.op = "Listener.dispose") => last.gone \subseteq {last.target}
  /\ (last.op = "addListener" /\ last.outcome = "ok") =>
       /\ last.target = Len(callback)
       /\ next[last.target] = E
       /\ prev[E] = last.target

\* cbA was registered three times and the second registration disposed:
\* the pass called cbA twice, for the first and the third
C20_Witness ==
  /\ Listeners = {1, 2, 3}
  /\ callback = <<"cbA", "cbA", "cbA">>
  /\ FullyUnlinked(2)
  /\ P.done /\ P.outcome = "ok" /\ Unmutated
  /\ CalledLis(P.called) = <<1, 3>>
  /\ TimesCalled("cbA") = 2

====
